---- MODULE Spec2Model ----
(***************************************************************************)
(* A state-machine model of the N-way blending engine (NWayBlender) and    *)
(* of the Application object that drives it.                               *)
(*                                                                         *)
(* Geometry is abstracted: a vertex array is represented by a record that  *)
(* names where its values came from (a file, or a blend with the inputs    *)
(* that determine it).  Everything the control flow of the engine and of   *)
(* the Application depends on (counts, flags, sizes, modes) is concrete.   *)
(***************************************************************************)
EXTENDS Integers, Sequences, FiniteSets, TLC

(* ------------------------------ bounds --------------------------------- *)

\* largest number of target meshes held by an engine / an Application
MaxMesh == 2
\* longest sequence of calls explored
MaxCalls == 6
\* largest number of tets in an adjacency graph handed to
\* computeRotationConsistency
MaxTet == 4

(* --------------------------- program constants ------------------------- *)

BM_LOG3 == "LOG3"
BM_SQL == "SQL"
BlendModes == {BM_LOG3, BM_SQL}
BM_SRL == "SRL"
BM_SlRL == "SlRL"
BM_AFF == "AFF"
\* the five modes blendTransformations knows
AllBlendModes == {BM_SRL, BM_LOG3, BM_SQL, BM_SlRL, BM_AFF}

TM_FACE == "Face"
TM_EDGE == "Edge"
TetModes == {TM_FACE, TM_EDGE}

\* values of numIterations exercised (a short; the UI slider offers 1..10)
Iterations == {1, 2}
\* values of initRotationAngle / globalRotation exercised (degrees)
Angles == {90}
\* values of visualizationMultiplier exercised
Multipliers == {2}
\* blend weights exercised (any double is accepted)
WeightVals == {0, 1}

(* ------------------------------- meshes -------------------------------- *)

\* abstract contents of a vertex array: which data the positions are
NoV == [kind |-> "none", id |-> "", w |-> <<>>, mode |-> "", it |-> 0]
FileV(id) == [kind |-> "file", id |-> id, w |-> <<>>, mode |-> "", it |-> 0]

NoEnergy == [n |-> 0, mult |-> 0]

\* Mesh::Mesh() and the state after Mesh::clear()
NoMesh == [nv |-> 0, nf |-> 0, V |-> NoV, energy |-> NoEnergy, tet |-> ""]

clear(m) == NoMesh

isValid(m) == m.nv > 0 /\ m.nf > 0

\* the files a path can name: three that fail in the three ways loadFromFile
\* can fail, and readable meshes of two vertex counts and two face counts
BadPaths == {"noext", "mesh.txt", "missing.obj"}
GoodPaths == {"a.obj", "c.obj", "d.ply"}
Paths == BadPaths \cup GoodPaths

FileMesh(path) ==
    CASE path = "a.obj" -> [nv |-> 4, nf |-> 4, V |-> FileV("a"), energy |-> NoEnergy, tet |-> ""]
      [] path = "c.obj" -> [nv |-> 5, nf |-> 4, V |-> FileV("c"), energy |-> NoEnergy, tet |-> ""]
      [] path = "d.ply" -> [nv |-> 4, nf |-> 6, V |-> FileV("d"), energy |-> NoEnergy, tet |-> ""]
      [] OTHER -> NoMesh

\* Mesh::loadFromFile: the mesh is cleared first, whatever happens next
loadFromFile(m, path) ==
    IF path \in GoodPaths
    THEN [ok |-> TRUE, mesh |-> FileMesh(path)]
    ELSE [ok |-> FALSE, mesh |-> clear(m)]

\* Mesh::computeTetStructure
computeTetStructure(m, mode) ==
    IF ~isValid(m)
    THEN [ok |-> FALSE, mesh |-> m]
    ELSE [ok |-> TRUE, mesh |-> [m EXCEPT !.tet = mode]]

\* Mesh::updateFromVector3d: min(pts.size(), V.rows()) rows are overwritten
updateFromVector3d(m, npts, v) ==
    IF m.nv = 0 \/ npts = 0 THEN m
    ELSE IF npts >= m.nv THEN [m EXCEPT !.V = v]
    ELSE [m EXCEPT !.V = [v EXCEPT !.kind = "partial"]]

\* the meshes handed to the engine directly
Meshes == {FileMesh(p) : p \in GoodPaths}

\* weight vectors handed to computeBlend: every length up to one more than
\* the engine can hold, all entries equal
WeightVectors == {[i \in 1..n |-> v] : n \in 0..(MaxMesh + 1), v \in WeightVals}

(* ------------------------------- solver -------------------------------- *)

\* the tet structure and factorization held by the Laplacian solver,
\* named by what they were built from
NoSolver == [base |-> NoV, numPts |-> 0, tetMode |-> "", areaWeighted |-> FALSE,
             numTet |-> 0, factorized |-> FALSE]

\* Tetrise::makeTetList: the number of tets built on a surface mesh, one per
\* face (face-centered) or one per edge of a closed surface (edge-centered)
makeTetList(m, mode) == IF mode = TM_FACE THEN m.nf ELSE (3 * m.nf) \div 2

\* Tetrise::removeDegenerate: the number of tets that remain out of n; every
\* tet built on the geometry "d" (coincident vertices) has zero volume
removeDegenerate(m, n) == IF m.V.id = "d" THEN 0 ELSE n

\* Laplacian::ARAPprecompute: > 0 when the system cannot be factorized; with
\* no tet the system holds the pinned vertex only and is singular
ARAPprecompute(s) == IF s.numTet = 0 THEN 1 ELSE 0

(* ------------------------------- engine -------------------------------- *)

\* the per-target arrays logR, logS, R, S, GL, logGL, L, quat of one target,
\* named by what they were computed from
NoParam == [mesh |-> NoV, mode |-> "", rc |-> FALSE, rot |-> 0, tetMode |-> ""]

\* NWayBlender::NWayBlender()
NewNWayBlender ==
    [baseMesh |-> NoMesh, blendMeshes |-> <<>>, numPts |-> 0,
     solver |-> NoSolver, param |-> <<>>,
     blendMode |-> BM_LOG3, tetMode |-> TM_FACE, numIterations |-> 1,
     rotationConsistency |-> FALSE, areaWeighted |-> FALSE,
     initRotationAngle |-> 0,
     needsInitialization |-> TRUE, needsParametrization |-> TRUE,
     numParametrized |-> 0,
     dirtied |-> {"needsInitialization", "needsParametrization"}]

\* the setters; dirtied is the set of dirty flags the call assigned
setBlendMode(e, mode) ==
    [e EXCEPT !.blendMode = mode, !.needsParametrization = TRUE,
              !.dirtied = {"needsParametrization"}]

\* setTetMode discarding the tet structure and factorization of the solver
setTetMode_dropsSolver(e, mode) ==
    [e EXCEPT !.tetMode = mode, !.needsInitialization = TRUE,
              !.solver = NoSolver,
              !.dirtied = {"needsInitialization"}]

setTetMode(e, mode) ==
    [e EXCEPT !.tetMode = mode, !.needsInitialization = TRUE,
              !.dirtied = {"needsInitialization"}]

setNumIterations(e, iters) ==
    [e EXCEPT !.numIterations = iters, !.dirtied = {}]

setRotationConsistency(e, enable) ==
    [e EXCEPT !.rotationConsistency = enable, !.needsParametrization = TRUE,
              !.dirtied = {"needsParametrization"}]

\* setAreaWeighted without the assignment to needsInitialization
setAreaWeighted_keepsInit(e, enable) ==
    [e EXCEPT !.areaWeighted = enable, !.dirtied = {}]

setAreaWeighted(e, enable) ==
    [e EXCEPT !.areaWeighted = enable, !.needsInitialization = TRUE,
              !.dirtied = {"needsInitialization"}]

setInitRotation(e, angle) ==
    [e EXCEPT !.initRotationAngle = angle, !.dirtied = {}]

isInitialized(e) == ~e.needsInitialization

setBaseMesh(e, mesh) ==
    [e EXCEPT !.baseMesh = mesh, !.numPts = mesh.nv,
              !.needsInitialization = TRUE, !.needsParametrization = TRUE,
              !.numParametrized = 0,
              !.dirtied = {"needsInitialization", "needsParametrization"}]

addBlendMesh(e, mesh) ==
    [e EXCEPT !.blendMeshes = Append(@, mesh), !.needsParametrization = TRUE,
              !.dirtied = {"needsParametrization"}]

clearMeshes(e) ==
    [e EXCEPT !.baseMesh = clear(@), !.blendMeshes = <<>>, !.numPts = 0,
              !.needsInitialization = TRUE, !.needsParametrization = TRUE,
              !.numParametrized = 0,
              !.dirtied = {"needsInitialization", "needsParametrization"}]

\* the tet structure built by initialize() on the base mesh, before the
\* factorization
tetStructure(e) ==
    [base |-> e.baseMesh.V, numPts |-> e.numPts,
     tetMode |-> e.tetMode, areaWeighted |-> e.areaWeighted,
     numTet |-> removeDegenerate(e.baseMesh, makeTetList(e.baseMesh, e.tetMode)),
     factorized |-> FALSE]

\* initialize with "needsInitialization = false" placed before the call of
\* ARAPprecompute
initialize_flagBeforePrecompute(e) ==
    IF ~isValid(e.baseMesh)
    THEN [ret |-> FALSE, eng |-> [e EXCEPT !.dirtied = {}]]
    ELSE LET built == tetStructure(e)
         IN  IF ARAPprecompute(built) > 0
             THEN [ret |-> FALSE,
                   eng |-> [e EXCEPT !.solver = built,
                                     !.needsInitialization = FALSE,
                                     !.dirtied = {"needsInitialization"}]]
             ELSE [ret |-> TRUE,
                   eng |-> [e EXCEPT !.solver = [built EXCEPT !.factorized = TRUE],
                                     !.needsInitialization = FALSE,
                                     !.needsParametrization = TRUE,
                                     !.numParametrized = 0,
                                     !.dirtied = {"needsParametrization"}]]

\* initialize with the value returned by ARAPprecompute ignored
initialize_ignoresError(e) ==
    IF ~isValid(e.baseMesh)
    THEN [ret |-> FALSE, eng |-> [e EXCEPT !.dirtied = {}]]
    ELSE LET built == tetStructure(e)
         IN  [ret |-> TRUE,
              eng |-> [e EXCEPT !.solver = [built EXCEPT
                                              !.factorized = (ARAPprecompute(built) = 0)],
                                !.needsInitialization = FALSE,
                                !.needsParametrization = TRUE,
                                !.numParametrized = 0,
                                !.dirtied = {"needsParametrization"}]]

\* NWayBlender::initialize
initialize(e) ==
    IF ~isValid(e.baseMesh)
    THEN [ret |-> FALSE, eng |-> [e EXCEPT !.dirtied = {}]]
    ELSE LET built == tetStructure(e)
         IN  IF ARAPprecompute(built) > 0
             THEN [ret |-> FALSE, eng |-> [e EXCEPT !.solver = built, !.dirtied = {}]]
             ELSE [ret |-> TRUE,
                   eng |-> [e EXCEPT !.solver = [built EXCEPT !.factorized = TRUE],
                                     !.needsInitialization = FALSE,
                                     !.needsParametrization = TRUE,
                                     !.numParametrized = 0,
                                     !.dirtied = {"needsParametrization"}]]

(* ------------------------ rotation consistency ------------------------- *)

\* Rotations are multiples of a quarter turn about one axis: a rotation is
\* its angle in quarter turns (0..3), a logarithm of it is any angle equal to
\* it modulo 4.

\* AffineLib::logSO: the principal logarithm, an angle in -1..2
logSO(r) == IF r % 4 = 3 THEN -1 ELSE r % 4

\* AffineLib::logSOc: the logarithm of r on the branch closest to prev
logSOc(r, prev) ==
    LET cands == {logSO(r) + 4 * m : m \in -1..1}
        dist(v) == IF v >= prev THEN v - prev ELSE prev - v
        best == {v \in cands : \A u \in cands : dist(v) <= dist(u)}
    IN  IF logSO(r) \in best THEN logSO(r) ELSE CHOOSE v \in best : TRUE

\* content of an element of logR that has not been assigned
Unset == -99

\* the locals of computeRotationConsistency before it is called
NoRc ==
    [pc |-> "idle", n |-> 0, adj |-> <<>>, R |-> <<>>, angle |-> 0,
     remain |-> {}, later |-> <<>>, prevSO |-> <<>>, logR |-> <<>>,
     order |-> <<>>, ref |-> <<>>, disc |-> <<>>, enq |-> <<>>, seeds |-> {}]

\* a call of computeRotationConsistency on n tets (numbered from 1) with
\* adjacency lists adj, rotations R and initRotationAngle angle (degrees)
rcCall(n, adj, R, angle) ==
    [NoRc EXCEPT !.pc = "call", !.n = n, !.adj = adj, !.R = R, !.angle = angle,
                 !.logR = [i \in 1..n |-> Unset],
                 !.ref = [i \in 1..n |-> Unset],
                 !.disc = [i \in 1..n |-> 0]]

\* the statements before the loop: prevSO filled with the initial
\* reference, remain filled with every tet
rcEnter(s) ==
    [s EXCEPT !.pc = "loop",
              !.prevSO = [i \in 1..s.n |-> s.angle \div 90],
              !.remain = 1..s.n]

\* the loop over adjacencyList[next] with the test that erases from remain
\* replaced by a test that leaves remain as it is
RECURSIVE visitNeighbours_noErase(_, _, _)
visitNeighbours_noErase(s, next, k) ==
    IF k > Len(s.adj[next]) THEN s
    ELSE LET f == s.adj[next][k]
         IN  IF f \in s.remain
             THEN visitNeighbours_noErase(
                      [s EXCEPT !.prevSO[f] = s.logR[next],
                                !.later = Append(@, f),
                                !.disc[f] = next,
                                !.enq = Append(@, f)], next, k + 1)
             ELSE visitNeighbours_noErase(s, next, k + 1)

\* the loop over adjacencyList[next], from its k-th entry on; disc and enq
\* record who discovered a tet and the order of the pushes
RECURSIVE visitNeighbours(_, _, _)
visitNeighbours(s, next, k) ==
    IF k > Len(s.adj[next]) THEN s
    ELSE LET f == s.adj[next][k]
         IN  IF f \in s.remain
             THEN visitNeighbours(
                      [s EXCEPT !.remain = @ \ {f},
                                !.prevSO[f] = s.logR[next],
                                !.later = Append(@, f),
                                !.disc[f] = next,
                                !.enq = Append(@, f)], next, k + 1)
             ELSE visitNeighbours(s, next, k + 1)

\* *remain.begin()
begin(S) == CHOOSE x \in S : \A y \in S : x <= y

\* one iteration of the loop with the frontier taken from its back
rcIterate_lifo(s) ==
    LET fromQueue == s.later # <<>>
        next == IF fromQueue THEN s.later[Len(s.later)] ELSE begin(s.remain)
        s1 == [s EXCEPT !.later = IF fromQueue THEN SubSeq(@, 1, Len(@) - 1) ELSE @,
                        !.remain = @ \ {next},
                        !.logR[next] = logSOc(s.R[next], s.prevSO[next]),
                        !.order = Append(@, next),
                        !.ref[next] = s.prevSO[next],
                        !.seeds = IF fromQueue THEN @ ELSE @ \cup {next}]
    IN  visitNeighbours(s1, next, 1)

\* one iteration of the loop with a fresh seed left in remain
rcIterate_seedKept(s) ==
    LET fromQueue == s.later # <<>>
        next == IF fromQueue THEN Head(s.later) ELSE begin(s.remain)
        s1 == [s EXCEPT !.later = IF fromQueue THEN Tail(@) ELSE @,
                        !.remain = IF fromQueue THEN @ \ {next} ELSE @,
                        !.logR[next] = logSOc(s.R[next], s.prevSO[next]),
                        !.order = Append(@, next),
                        !.ref[next] = s.prevSO[next],
                        !.seeds = IF fromQueue THEN @ ELSE @ \cup {next}]
    IN  visitNeighbours(s1, next, 1)

\* one iteration of the loop "while (!remain.empty())"; order, ref and seeds
\* record the tets resolved, the reference each was resolved against and
\* the tets taken from remain
rcIterate(s) ==
    LET fromQueue == s.later # <<>>
        next == IF fromQueue THEN Head(s.later) ELSE begin(s.remain)
        s1 == [s EXCEPT !.later = IF fromQueue THEN Tail(@) ELSE @,
                        !.remain = @ \ {next},
                        !.logR[next] = logSOc(s.R[next], s.prevSO[next]),
                        !.order = Append(@, next),
                        !.ref[next] = s.prevSO[next],
                        !.seeds = IF fromQueue THEN @ ELSE @ \cup {next}]
    IN  visitNeighbours(s1, next, 1)

\* std::vector::resize of the per-target arrays
resize(p, n) ==
    IF Len(p) >= n THEN SubSeq(p, 1, n)
    ELSE p \o [i \in 1..(n - Len(p)) |-> NoParam]

\* NWayBlender::parametrizeBlendMesh(j - 1) on the arrays p (targets are
\* numbered from 1 here)
parametrizeBlendMesh(e, p, j) ==
    IF j < 1 \/ j > Len(e.blendMeshes) THEN p
    ELSE IF e.blendMeshes[j].nv # e.numPts THEN p
    ELSE [p EXCEPT ![j] = [mesh |-> e.blendMeshes[j].V, mode |-> e.blendMode,
                           rc |-> e.rotationConsistency,
                           rot |-> e.initRotationAngle,
                           tetMode |-> e.tetMode]]

\* the loop started at target 0 instead of numParametrized
toParametrize_all(e) == 1..Len(e.blendMeshes)

\* the targets visited by the loop
\* "for (j = numParametrized; j < numMesh; j++) parametrizeBlendMesh(j)"
toParametrize(e) == {j \in 1..Len(e.blendMeshes) : j > e.numParametrized}

\* that loop, run on the arrays p over the targets js in increasing order
RECURSIVE parametrizeAll(_, _, _)
parametrizeAll(e, p, js) ==
    IF js = {} THEN p
    ELSE LET j == CHOOSE x \in js : \A y \in js : x <= y
         IN  parametrizeAll(e, parametrizeBlendMesh(e, p, j), js \ {j})

\* the early returns without the weight-count check
rejects_noCount(e, weights) ==
    \/ e.needsInitialization
    \/ Len(e.blendMeshes) = 0

\* the three early returns of computeBlend
rejects(e, weights) ==
    \/ e.needsInitialization
    \/ Len(e.blendMeshes) = 0
    \/ Len(weights) # Len(e.blendMeshes)

\* an early return placed after the resize of the per-target arrays
Rejected_resized(e, output) ==
    [ret |-> FALSE,
     eng |-> [e EXCEPT !.param = resize(@, Len(e.blendMeshes)), !.dirtied = {}],
     out |-> output, parametrized |-> {}, solves |-> 0, refits |-> 0]

\* what a call leaves behind when it returns early
Rejected(e, output) ==
    [ret |-> FALSE, eng |-> [e EXCEPT !.dirtied = {}], out |-> output,
     parametrized |-> {}, solves |-> 0, refits |-> 0]

\* NWayBlender::computeBlend
computeBlend(e, weights, output, visualizeEnergy, visualizationMultiplier) ==
    IF rejects(e, weights) THEN Rejected(e, output)
    ELSE
      LET numMesh == Len(e.blendMeshes)
          p == parametrizeAll(e, resize(e.param, numMesh), toParametrize(e))
          solves == IF e.numIterations > 0 THEN e.numIterations ELSE 0
          refits == IF e.numIterations > 0
                    THEN (e.numIterations - 1) + (IF visualizeEnergy THEN 1 ELSE 0)
                    ELSE 0
          newV == [kind |-> IF solves > 0 THEN "blend" ELSE "unset",
                   id |-> e.solver.base.id, w |-> weights,
                   mode |-> e.blendMode, it |-> solves]
          moved == updateFromVector3d(output, e.numPts, newV)
          out == IF visualizeEnergy
                 THEN [moved EXCEPT !.energy = [n |-> e.numPts,
                                                mult |-> visualizationMultiplier]]
                 ELSE moved
      IN  [ret |-> TRUE,
           eng |-> [e EXCEPT !.param = p, !.numParametrized = numMesh,
                             !.dirtied = {}],
           out |-> out,
           parametrized |-> toParametrize(e),
           solves |-> solves, refits |-> refits]

(* ------------------ the per-tet arrays and their blend ----------------- *)

\* the loops "for (w : weights) sum += w"
RECURSIVE sumOf(_)
sumOf(w) == IF Len(w) = 0 THEN 0 ELSE w[1] + sumOf(Tail(w))

\* Every shape of this layer is the rest shape turned by a multiple of a
\* quarter turn about one axis, scaled by a power of two and moved along one
\* axis.  A matrix is then a similarity of the plane, written as the pair
\* <<re, im>> (the rotation by r quarter turns scaled by c is c * i^r); the
\* logarithm of a matrix is the pair <<log2 of the scale, angle in quarter
\* turns>>; a quaternion about the axis is the pair <<z, w>>; a translation
\* is the pair <<x, 0>>.

Identity == <<1, 0>>
Zero == <<0, 0>>

plus(a, b) == <<a[1] + b[1], a[2] + b[2]>>
times(w, a) == <<w * a[1], w * a[2]>>

RECURSIVE pow2(_)
pow2(s) == IF s <= 0 THEN 1 ELSE 2 * pow2(s - 1)

\* the matrix z turned by r quarter turns
turn(z, r) ==
    CASE r % 4 = 0 -> z
      [] r % 4 = 1 -> <<-z[2], z[1]>>
      [] r % 4 = 2 -> <<-z[1], -z[2]>>
      [] r % 4 = 3 -> <<z[2], -z[1]>>

\* AffineLib: expSO of a skew matrix, expSym of a symmetric one, and the
\* matrix exponential of a general one
expSO(x) == turn(Identity, x[2])
expSym(x) == <<pow2(x[1]), 0>>
exp(x) == turn(<<pow2(x[1]), 0>>, x[2])

\* Quaternion<double>(R.transpose()) of the rotation by r quarter turns,
\* for r odd up to the factor sqrt(1/2)
quatOf(r) ==
    CASE r % 4 = 0 -> <<0, 1>>
      [] r % 4 = 1 -> <<-1, 1>>
      [] r % 4 = 2 -> <<1, 0>>
      [] r % 4 = 3 -> <<1, 1>>

\* Quaternion<double>(q).matrix().transpose() of a quaternion as stored
matrixT(q) == <<1 - 2 * q[1] * q[1], -2 * q[2] * q[1]>>

\* the same of q.normalized(), which blendQuatList stores: normalized()
\* leaves the zero vector as it is; the divisions are exact when the angle
\* is a multiple of a quarter turn
matrixTNormalized(q) ==
    LET n == q[1] * q[1] + q[2] * q[2]
    IN  IF n = 0 THEN matrixT(q)
        ELSE <<(q[2] * q[2] - q[1] * q[1]) \div n, (-2 * q[2] * q[1]) \div n>>

\* the shapes of this layer: "a" is the rest shape, "b" the rest shape
\* turned by a half turn, doubled and moved by 1; the other files are in
\* rest pose
Shapes == {"a", "b"}
Shifts == {1}

Pose(id) ==
    CASE id = "b" -> [r |-> 2, s |-> 1, l |-> 1]
      [] id = "a+1" -> [r |-> 0, s |-> 0, l |-> 1]
      [] id = "b+1" -> [r |-> 2, s |-> 1, l |-> 2]
      [] OTHER -> [r |-> 0, s |-> 0, l |-> 0]

ShapeMesh(id) == [nv |-> 4, nf |-> 4, V |-> FileV(id), energy |-> NoEnergy, tet |-> ""]

\* the mesh m with every vertex moved by t
translate(m, t) ==
    IF t = 1 /\ m.V.id \in Shapes
    THEN [m EXCEPT !.V.id = IF @ = "a" THEN "a+1" ELSE "b+1"]
    ELSE m

\* Tetrise::makeAdjacencyList: the tets of a strip, each adjacent to the
\* one before and the one after
makeAdjacencyList(n) ==
    [i \in 1..n |-> (IF i > 1 THEN <<i - 1>> ELSE <<>>)
                    \o (IF i < n THEN <<i + 1>> ELSE <<>>)]

\* the loop of computeRotationConsistency run until it exits
RECURSIVE rcRun(_)
rcRun(s) == IF s.remain = {} THEN s ELSE rcRun(rcIterate(s))

\* the arrays logR .. L (one element per target, holding one element per
\* tet), and AR, AS, AL and weights of the most recent blendTransformations;
\* made[j] records which arrays of target j a parametrizeBlendMesh has
\* assigned in every element
NoArrays ==
    [logR |-> <<>>, logS |-> <<>>, R |-> <<>>, S |-> <<>>, GL |-> <<>>,
     logGL |-> <<>>, quat |-> <<>>, L |-> <<>>,
     AR |-> <<>>, AS |-> <<>>, AL |-> <<>>, weights |-> <<>>, made |-> <<>>]

\* std::vector::resize(n) of a vector of vectors: new elements are empty
resizeOuter(v, n) ==
    IF Len(v) >= n THEN SubSeq(v, 1, n) ELSE v \o [i \in 1..(n - Len(v)) |-> <<>>]

\* std::vector::resize(n) of a vector of Eigen matrices: new elements are
\* not initialized, they hold g
resizeInner(v, n, g) == [i \in 1..n |-> IF i <= Len(v) THEN v[i] ELSE <<g, g>>]

\* the resizes of computeBlend
resizeArrays(x, numMesh) ==
    [x EXCEPT !.logR = resizeOuter(@, numMesh), !.logS = resizeOuter(@, numMesh),
              !.R = resizeOuter(@, numMesh), !.S = resizeOuter(@, numMesh),
              !.GL = resizeOuter(@, numMesh), !.logGL = resizeOuter(@, numMesh),
              !.quat = resizeOuter(@, numMesh), !.L = resizeOuter(@, numMesh),
              !.made = IF Len(@) >= numMesh THEN SubSeq(@, 1, numMesh)
                       ELSE @ \o [i \in 1..(numMesh - Len(@)) |-> {}]]

\* NWayBlender::parametrizeBlendMesh(j - 1) on the arrays x.  The base mesh
\* is in rest pose, so tetMatrixInverse[i] * Q[i] is the pose of the target.
parametrizeArrays(e, x, j, g) ==
    IF j < 1 \/ j > Len(e.blendMeshes) THEN x
    ELSE IF e.blendMeshes[j].nv # e.numPts THEN x
    ELSE
      LET numTet == e.solver.numTet
          pose == Pose(e.blendMeshes[j].V.id)
          all(v) == [i \in 1..numTet |-> v]
          rc == rcRun(rcEnter(rcCall(numTet, makeAdjacencyList(numTet),
                                     [i \in 1..numTet |-> pose.r],
                                     e.initRotationAngle)))
          oldLogR == resizeInner(x.logR[j], numTet, g)
      IN  [x EXCEPT
             !.GL[j] = all(turn(<<pow2(pose.s), 0>>, pose.r)),
             !.L[j] = all(<<pose.l, 0>>),
             !.logS[j] = all(<<pose.s, 0>>),
             !.R[j] = all(turn(Identity, pose.r)),
             !.S[j] = IF e.blendMode \in {BM_SQL, BM_SlRL}
                      THEN all(expSym(<<pose.s, 0>>))
                      ELSE resizeInner(@, numTet, g),
             !.logGL[j] = IF e.blendMode = BM_LOG3
                          THEN all(<<pose.s, logSO(pose.r)>>) ELSE @,
             !.quat[j] = IF e.blendMode = BM_SQL THEN all(quatOf(pose.r)) ELSE @,
             !.logR[j] = IF e.rotationConsistency
                         THEN [i \in 1..numTet |->
                                  IF rc.logR[i] = Unset THEN oldLogR[i]
                                  ELSE <<0, rc.logR[i]>>]
                         ELSE all(<<0, logSO(pose.r)>>),
             !.made[j] = @ \cup {"GL", "L", "logS", "R"}
                           \cup (IF e.blendMode \in {BM_SQL, BM_SlRL} THEN {"S"} ELSE {})
                           \cup (IF e.blendMode = BM_LOG3 THEN {"logGL"} ELSE {})
                           \cup (IF e.blendMode = BM_SQL THEN {"quat"} ELSE {})
                           \cup (IF e.rotationConsistency
                                    => \A i \in 1..numTet : rc.logR[i] # Unset
                                 THEN {"logR"} ELSE {})]

\* the loop of computeBlend over the targets js, in increasing order
RECURSIVE parametrizeArraysAll(_, _, _, _)
parametrizeArraysAll(e, x, js, g) ==
    IF js = {} THEN x
    ELSE LET j == CHOOSE k \in js : \A l \in js : k <= l
         IN  parametrizeArraysAll(e, parametrizeArrays(e, x, j, g), js \ {j}, g)

\* A[j][i]; an index past the end reads memory that holds g
at(A, j, i, g) == IF i <= Len(A[j]) THEN A[j][i] ELSE <<g, g>>

\* sum over j from k on of weight[j] * A[j][i]
RECURSIVE weighted(_, _, _, _, _)
weighted(A, weight, i, k, g) ==
    IF k > Len(A) THEN Zero
    ELSE plus(times(weight[k], at(A, k, i, g)), weighted(A, weight, i, k + 1, g))

\* blendMatList: the elements of X up to A[0].size() are assigned
blendMatList(A, weight, X, g) ==
    IF Len(A) = 0 THEN X
    ELSE [i \in 1..Len(X) |->
             IF i <= Len(A[1]) THEN weighted(A, weight, i, 1, g) ELSE X[i]]

\* blendMatLinList
blendMatLinList(A, weight, X, g) ==
    IF Len(A) = 0 THEN X
    ELSE [i \in 1..Len(X) |->
             IF i <= Len(A[1])
             THEN plus(weighted(A, weight, i, 1, g),
                       times(1 - sumOf(weight), Identity))
             ELSE X[i]]

\* blendQuatList; the pair stored stands for its normalized()
blendQuatList(A, weight, X, g) ==
    IF Len(A) = 0 THEN X
    ELSE [i \in 1..Len(X) |->
             IF i <= Len(A[1])
             THEN plus(weighted(A, weight, i, 1, g),
                       times(1 - sumOf(weight), <<0, 1>>))
             ELSE X[i]]

\* NWayBlender::blendTransformations on AR, AS, AL as constructed by
\* computeBlend: solver.numTet elements that are not initialized
blendTransformations(e, x, weights, g) ==
    LET numTet == e.solver.numTet
        fresh == [i \in 1..numTet |-> <<g, g>>]
        each(X, f(_)) == [i \in 1..numTet |-> f(X[i])]
        identities == [i \in 1..numTet |-> Identity]
        AL == blendMatList(x.L, weights, fresh, g)
        Aq == blendQuatList(x.quat, weights, fresh, g)
        out(AR, AS) == [x EXCEPT !.AR = AR, !.AS = AS, !.AL = AL,
                                 !.weights = weights]
    IN  CASE e.blendMode = BM_SRL ->
               out(each(blendMatList(x.logR, weights, fresh, g), expSO),
                   each(blendMatList(x.logS, weights, fresh, g), expSym))
          [] e.blendMode = BM_LOG3 ->
               out(each(blendMatList(x.logGL, weights, fresh, g), exp),
                   identities)
          [] e.blendMode = BM_SQL ->
               out([i \in 1..numTet |->
                       IF i <= Len(x.quat[1]) THEN matrixTNormalized(Aq[i])
                       ELSE matrixT(Aq[i])],
                   blendMatLinList(x.S, weights, fresh, g))
          [] e.blendMode = BM_SlRL ->
               out(each(blendMatList(x.logR, weights, fresh, g), expSO),
                   blendMatLinList(x.S, weights, fresh, g))
          [] e.blendMode = BM_AFF ->
               out(blendMatLinList(x.GL, weights, fresh, g), identities)
          [] OTHER -> out(fresh, fresh)

\* the arrays after computeBlend(weights): unchanged if the call is
\* rejected
blendArrays(e, x, weights, g) ==
    IF rejects(e, weights) THEN x
    ELSE LET numMesh == Len(e.blendMeshes)
             p == parametrizeArraysAll(e, resizeArrays(x, numMesh),
                                       toParametrize(e), g)
         IN  blendTransformations(e, p, weights, g)

(* ------------------ computeBlend, one statement at a time -------------- *)

\* values of numIterations a caller of setNumIterations(short) may hand in
AnyIterations == {-1, 0, 3}

\* values of visualizationMultiplier compared
AnyMultipliers == {1, 3}

\* std::vector<Vector3d> new_pts(numPts): the elements are not initialized,
\* they hold mem, until a solve is copied into them; iterate counts the
\* solves that led to the positions held (positions solved from rotations
\* fitted to the positions of solve d are those of solve d + 1)
NoPts == [solved |-> FALSE, iterate |-> 0, mem |-> 0]

\* the frame of one call of computeBlend: its position, its arguments, its
\* locals numMesh, j (targets are numbered from 1), k, AR, AS, AL, new_pts
\* and tetEnergy, the contents g of the memory it does not initialize, and
\*   first, finished: the first target of the parametrization loop and the
\*     targets whose parametrizeBlendMesh has returned;
\*   events: the solves and refits made, in order;
\*   composed: the AR, AS, AL every solve was handed.
\* AR is the blend AR.blend with its rotations refitted AR.fit times;
\* tetEnergy is measured on the positions of solve number tetEnergy
NoFrame ==
    [pc |-> "idle", ret |-> FALSE, weights |-> <<>>,
     visualizeEnergy |-> FALSE, visualizationMultiplier |-> 0,
     numMesh |-> 0, j |-> 0, k |-> 0, g |-> 0,
     AR |-> [blend |-> <<>>, fit |-> 0], AS |-> <<>>, AL |-> <<>>,
     new_pts |-> NoPts, tetEnergy |-> 0,
     first |-> 0, finished |-> {}, events |-> <<>>, composed |-> <<>>]

\* computeBlend from its entry to the parametrization loop: the early
\* returns and the resizes
enter(e, x, weights, visualizeEnergy, visualizationMultiplier, g) ==
    LET c == [NoFrame EXCEPT !.weights = weights,
                             !.visualizeEnergy = visualizeEnergy,
                             !.visualizationMultiplier = visualizationMultiplier,
                             !.g = g, !.new_pts.mem = g]
        numMesh == Len(e.blendMeshes)
    IN  IF rejects(e, weights)
        THEN [frame |-> [NoFrame EXCEPT !.pc = "done"],
              eng |-> [e EXCEPT !.dirtied = {}], arr |-> x]
        ELSE [frame |-> [c EXCEPT !.pc = "param", !.numMesh = numMesh,
                                  !.j = e.numParametrized + 1,
                                  !.first = e.numParametrized + 1],
              eng |-> [e EXCEPT !.param = resize(@, numMesh), !.dirtied = {}],
              arr |-> resizeArrays(x, numMesh)]

\* the loop condition skipping the last target
moreTargets_skipsLast(c) == c.j < c.numMesh

\* "j < numMesh" of the parametrization loop
moreTargets(c) == c.j <= c.numMesh

\* whether parametrizeBlendMesh(j) reaches its call of
\* computeRotationConsistency
traverses(e, c) ==
    /\ e.rotationConsistency
    /\ e.blendMeshes[c.j].nv = e.numPts

\* the call computeRotationConsistency(j) made by parametrizeBlendMesh
traversal(e, c) ==
    LET numTet == e.solver.numTet
        pose == Pose(e.blendMeshes[c.j].V.id)
    IN  rcCall(numTet, makeAdjacencyList(numTet), [i \in 1..numTet |-> pose.r],
               e.initRotationAngle)

\* parametrizeBlendMesh(j) has returned; "j++"
returned(e, x, c) ==
    [frame |-> [c EXCEPT !.pc = "param", !.j = @ + 1,
                         !.finished = @ \cup {c.j}],
     eng |-> [e EXCEPT !.param = parametrizeBlendMesh(e, @, c.j)],
     arr |-> parametrizeArrays(e, x, c.j, c.g)]

\* "numParametrized = numMesh" and blendTransformations(weights, AR, AS, AL)
blend(e, x, c) ==
    LET b == blendTransformations(e, x, c.weights, c.g)
    IN  [frame |-> [c EXCEPT !.pc = "loop", !.k = 0,
                             !.AR = [blend |-> b.AR, fit |-> 0],
                             !.AS = b.AS, !.AL = b.AL],
         eng |-> [e EXCEPT !.numParametrized = c.numMesh],
         arr |-> b]

\* "k < numIterations" of the ARAP loop
iterating(e, c) == c.k < e.numIterations

\* the rotations refitted only for the visualization
recomputesRotations_toVisualize(e, c) == c.visualizeEnergy

\* "k + 1 < numIterations || visualizeEnergy"
recomputesRotations(e, c) == c.k + 1 < e.numIterations \/ c.visualizeEnergy

\* the matrices A composed from AS, AR and AL, solver.ARAPSolve(A) and the
\* copy of solver.Sol into new_pts
ARAPSolve(c) ==
    [c EXCEPT !.composed = Append(@, [AR |-> c.AR, AS |-> c.AS, AL |-> c.AL]),
              !.new_pts = [solved |-> TRUE, iterate |-> c.AR.fit + 1,
                           mem |-> 0],
              !.events = Append(@, "solve")]

\* one pass of the ARAP loop up to its "if"
solve(e, c) ==
    LET s == ARAPSolve(c)
    IN  IF recomputesRotations(e, c) THEN [s EXCEPT !.pc = "refit"]
        ELSE [s EXCEPT !.k = @ + 1]

\* a refit that stores the fitted stretch as well
computeEnergy_storesStretch(c) ==
    [c EXCEPT !.AR.fit = c.new_pts.iterate,
              !.AS = [i \in DOMAIN @ |-> <<c.new_pts.iterate + 1, 0>>],
              !.tetEnergy = c.new_pts.iterate,
              !.events = Append(@, "refit")]

\* NWayBlender::computeEnergy(new_pts, AS, AR, tetEnergy): AR and tetEnergy
\* are assigned in every element, AS is read
computeEnergy(c) ==
    [c EXCEPT !.AR.fit = c.new_pts.iterate,
              !.tetEnergy = c.new_pts.iterate,
              !.events = Append(@, "refit")]

\* the rest of the pass; "k++"
refit(c) == [computeEnergy(c) EXCEPT !.pc = "loop", !.k = @ + 1]

\* the vertex positions computeBlend hands to updateFromVector3d
positions(e, c) ==
    [kind |-> IF c.new_pts.solved THEN "blend" ELSE "unset",
     id |-> e.solver.base.id, w |-> c.weights, mode |-> e.blendMode,
     it |-> c.new_pts.iterate]

\* computeBlend from the end of the ARAP loop to "return true"
finish(e, c, output) ==
    LET moved == updateFromVector3d(output, e.numPts, positions(e, c))
    IN  [frame |-> [c EXCEPT !.pc = "done", !.ret = TRUE],
         out |-> IF c.visualizeEnergy
                 THEN [moved EXCEPT !.energy =
                          [n |-> e.numPts, mult |-> c.visualizationMultiplier]]
                 ELSE moved]

\* the parametrization loop from target c.j on
RECURSIVE parametrizeFrom(_, _, _)
parametrizeFrom(e, x, c) ==
    IF moreTargets(c)
    THEN LET r == returned(e, x, c) IN parametrizeFrom(r.eng, r.arr, r.frame)
    ELSE [frame |-> c, eng |-> e, arr |-> x]

\* the ARAP loop from pass c.k on
RECURSIVE iterateFrom(_, _)
iterateFrom(e, c) ==
    IF c.pc = "refit" THEN iterateFrom(e, refit(c))
    ELSE IF iterating(e, c) THEN iterateFrom(e, solve(e, c))
    ELSE c

\* NWayBlender::computeBlend from its entry to its return, by the
\* statements above
computeBlendRun(e, x, output, weights, visualizeEnergy, visualizationMultiplier, g) ==
    LET a == enter(e, x, weights, visualizeEnergy, visualizationMultiplier, g)
        p == parametrizeFrom(a.eng, a.arr, a.frame)
        b == blend(p.eng, p.arr, p.frame)
        f == finish(b.eng, iterateFrom(b.eng, b.frame), output)
    IN  IF a.frame.pc = "done"
        THEN [ret |-> FALSE, frame |-> a.frame, eng |-> a.eng, out |-> output]
        ELSE [ret |-> TRUE, frame |-> f.frame, eng |-> b.eng, out |-> f.out]

(* ----------------------------- Application ----------------------------- *)

\* Application::Application(); the NWayBlender member and outputMesh are
\* the variables blender and outputMesh
NewApplication ==
    [baseMesh |-> NoMesh, blendMeshes |-> <<>>, meshWeights |-> <<>>,
     blendMode |-> BM_LOG3, tetMode |-> TM_FACE, numIterations |-> 1,
     globalRotation |-> 0, visualizationMultiplier |-> 1,
     rotationConsistency |-> FALSE, areaWeighted |-> FALSE,
     visualizeEnergy |-> FALSE,
     controlPoints |-> <<>>, barycentricWeights |-> <<>>,
     selectedControlPoint |-> -1,
     needsRecompute |-> TRUE, needsInitialization |-> TRUE]

\* result of an Application method: return value and the three objects
AppResult(ret, a, e, o) == [ret |-> ret, app |-> a, eng |-> e, out |-> o]

isReadyToBlend(a) == isValid(a.baseMesh) /\ Len(a.blendMeshes) > 0

validateMeshTopology(a) ==
    /\ isValid(a.baseMesh)
    /\ \A i \in DOMAIN a.blendMeshes :
          /\ a.blendMeshes[i].nv = a.baseMesh.nv
          /\ a.blendMeshes[i].nf = a.baseMesh.nf

\* std::vector::erase(begin() + index), index counted from 0
erase(s, index) == SubSeq(s, 1, index) \o SubSeq(s, index + 2, Len(s))

\* Application::loadBaseMesh
loadBaseMesh(a, e, o, path) ==
    LET l == loadFromFile(a.baseMesh, path)
    IN  IF ~l.ok
        THEN AppResult(FALSE, [a EXCEPT !.baseMesh = l.mesh], e, o)
        ELSE AppResult(TRUE,
                       [a EXCEPT !.baseMesh = l.mesh, !.blendMeshes = <<>>,
                                 !.meshWeights = <<>>,
                                 !.needsInitialization = TRUE,
                                 !.needsRecompute = TRUE],
                       e, clear(o))

\* Application::addBlendMesh comparing vertex counts only
App_addBlendMesh_noFaces(a, e, o, path) ==
    LET l == loadFromFile(NoMesh, path)
    IN  IF ~l.ok THEN AppResult(-1, a, e, o)
        ELSE IF isValid(a.baseMesh) /\ l.mesh.nv # a.baseMesh.nv
        THEN AppResult(-1, a, e, o)
        ELSE AppResult(Len(a.blendMeshes),
                       [a EXCEPT !.blendMeshes = Append(@, l.mesh),
                                 !.meshWeights = Append(@, 0),
                                 !.needsInitialization = TRUE,
                                 !.needsRecompute = TRUE],
                       e, o)

\* Application::addBlendMesh; ret is the index returned (from 0) or -1
App_addBlendMesh(a, e, o, path) ==
    LET l == loadFromFile(NoMesh, path)
    IN  IF ~l.ok THEN AppResult(-1, a, e, o)
        ELSE IF isValid(a.baseMesh)
                /\ (l.mesh.nv # a.baseMesh.nv \/ l.mesh.nf # a.baseMesh.nf)
        THEN AppResult(-1, a, e, o)
        ELSE AppResult(Len(a.blendMeshes),
                       [a EXCEPT !.blendMeshes = Append(@, l.mesh),
                                 !.meshWeights = Append(@, 0),
                                 !.needsInitialization = TRUE,
                                 !.needsRecompute = TRUE],
                       e, o)

\* Application::removeBlendMesh without the erase from meshWeights
removeBlendMesh_keepsWeight(a, e, o, index) ==
    IF index < 0 \/ index >= Len(a.blendMeshes) THEN AppResult(FALSE, a, e, o)
    ELSE AppResult(TRUE,
                   [a EXCEPT !.blendMeshes = erase(@, index),
                             !.needsInitialization = TRUE,
                             !.needsRecompute = TRUE],
                   e, o)

\* Application::removeBlendMesh
removeBlendMesh(a, e, o, index) ==
    IF index < 0 \/ index >= Len(a.blendMeshes) THEN AppResult(FALSE, a, e, o)
    ELSE AppResult(TRUE,
                   [a EXCEPT !.blendMeshes = erase(@, index),
                             !.meshWeights = erase(@, index),
                             !.needsInitialization = TRUE,
                             !.needsRecompute = TRUE],
                   e, o)

\* Application::clearAll
clearAll(a, e, o) ==
    AppResult(TRUE,
              [a EXCEPT !.baseMesh = clear(@), !.blendMeshes = <<>>,
                        !.meshWeights = <<>>,
                        !.controlPoints = <<>>, !.barycentricWeights = <<>>,
                        !.needsInitialization = TRUE, !.needsRecompute = TRUE],
              e, clear(o))

\* the loop "for (mesh : blendMeshes) blender.addBlendMesh(mesh)"
RECURSIVE addBlendMeshes(_, _, _)
addBlendMeshes(e, meshes, i) ==
    IF i > Len(meshes) THEN e
    ELSE addBlendMeshes(addBlendMesh(e, meshes[i]), meshes, i + 1)

\* Application::initialize
App_initialize(a, e, o) ==
    IF ~isReadyToBlend(a) THEN AppResult(FALSE, a, e, o)
    ELSE IF ~validateMeshTopology(a) THEN AppResult(FALSE, a, e, o)
    ELSE
      LET a1 == [a EXCEPT
                   !.baseMesh = computeTetStructure(@, a.tetMode).mesh,
                   !.blendMeshes = [i \in DOMAIN @ |->
                                       computeTetStructure(@[i], a.tetMode).mesh]]
          e1 == setInitRotation(
                  setAreaWeighted(
                    setRotationConsistency(
                      setNumIterations(
                        setTetMode(setBlendMode(e, a.blendMode), a.tetMode),
                        a.numIterations),
                      a.rotationConsistency),
                    a.areaWeighted),
                  a.globalRotation)
          e2 == addBlendMeshes(setBaseMesh(e1, a1.baseMesh), a1.blendMeshes, 1)
          r == initialize(e2)
      IN  IF ~r.ret THEN AppResult(FALSE, a1, r.eng, o)
          ELSE AppResult(TRUE,
                         [a1 EXCEPT !.needsInitialization = FALSE,
                                    !.needsRecompute = TRUE],
                         r.eng, a1.baseMesh)

\* Application::computeBlend; blend is the engine call it made, if any
App_computeBlend(a, e, o) ==
    LET none == [blend |-> Rejected(e, o), blended |-> FALSE]
    IN
    IF ~isReadyToBlend(a) THEN AppResult(FALSE, a, e, o) @@ none
    ELSE
      LET i == IF a.needsInitialization THEN App_initialize(a, e, o)
               ELSE AppResult(TRUE, a, e, o)
      IN  IF ~i.ret THEN AppResult(FALSE, i.app, i.eng, i.out) @@ none
          ELSE
            LET e1 == setInitRotation(
                        setRotationConsistency(
                          setNumIterations(setBlendMode(i.eng, i.app.blendMode),
                                           i.app.numIterations),
                          i.app.rotationConsistency),
                        i.app.globalRotation)
                r == computeBlend(e1, i.app.meshWeights, i.out,
                                  i.app.visualizeEnergy,
                                  i.app.visualizationMultiplier)
            IN  IF ~r.ret
                THEN AppResult(FALSE, i.app, r.eng, r.out)
                       @@ [blend |-> r, blended |-> TRUE]
                ELSE AppResult(TRUE, [i.app EXCEPT !.needsRecompute = FALSE],
                               r.eng, r.out)
                       @@ [blend |-> r, blended |-> TRUE]

\* positions of the control points: points of the x axis, the origin among
\* them
Points == {0, 1}

\* the first vertex of a loaded mesh, getVerticesAsVector3d()[0]: the files
\* of Paths all start at the origin
firstVertex(m) == 0

abs(x) == IF x < 0 THEN -x ELSE x

\* WeightController::computeMVC2D for points of the x axis, where every
\* cross product A[i] is 0; the division of the normalisation is exact for
\* the positions of Points, where the sum is 0 or 1
computeMVC2D(loc, vertices) ==
    LET num == Len(vertices)
        zero == [i \in 1..num |-> 0]
        v(i) == vertices[i] - loc
        r(i) == abs(v(i))
        nxt(i) == (i % num) + 1
        D(i) == v(i) * v(nxt(i))
        boundary == {i \in 1..num : r(i) = 0 \/ D(i) < 0}
        raw == IF boundary = {} THEN zero
               ELSE LET i == CHOOSE k \in boundary : \A l \in boundary : k <= l
                    IN  IF r(i) = 0 THEN [zero EXCEPT ![i] = 1]
                        ELSE [zero EXCEPT ![i] = r(nxt(i)), ![nxt(i)] = r(i)]
        sum == sumOf(raw)
    IN  IF num = 0 THEN <<>>
        ELSE IF num = 1 THEN <<1>>
        ELSE IF sum > 0 THEN [i \in 1..num |-> raw[i] \div sum]
        ELSE raw

\* WeightController::computeWeights, after setControlPoints(points)
computeWeights(points, queryPoint) ==
    IF Len(points) = 0 THEN <<>>
    ELSE IF Len(points) = 1 THEN <<1>>
    ELSE computeMVC2D(queryPoint, points)

\* Application::addControlPoint; ret is the index returned (from 0)
addControlPoint(a, e, o, pos) ==
    AppResult(Len(a.controlPoints),
              [a EXCEPT !.controlPoints = Append(@, pos),
                        !.needsRecompute = TRUE],
              e, o)

\* Application::removeControlPoint
removeControlPoint(a, e, o, index) ==
    IF index < 0 \/ index >= Len(a.controlPoints) THEN AppResult(FALSE, a, e, o)
    ELSE AppResult(TRUE,
                   [a EXCEPT !.controlPoints = erase(@, index),
                             !.selectedControlPoint =
                                 IF @ = index THEN -1
                                 ELSE IF @ > index THEN @ - 1 ELSE @,
                             !.needsRecompute = TRUE],
                   e, o)

\* Application::updateControlPoint
updateControlPoint(a, e, o, index, pos) ==
    IF index < 0 \/ index >= Len(a.controlPoints) THEN AppResult(FALSE, a, e, o)
    ELSE AppResult(TRUE,
                   [a EXCEPT !.controlPoints[index + 1] = pos,
                             !.needsRecompute = TRUE],
                   e, o)

\* Application::computeBarycentricWeights; ret is FALSE on the early returns
computeBarycentricWeights(a, e, o) ==
    IF Len(a.controlPoints) = 0 THEN AppResult(FALSE, a, e, o)
    ELSE IF Len(a.blendMeshes) = 0 THEN AppResult(FALSE, a, e, o)
    ELSE
      LET numBlendMeshes == Len(a.blendMeshes)
          resized == [i \in 1..numBlendMeshes |->
                         IF i <= Len(a.meshWeights) THEN a.meshWeights[i] ELSE 0]
          assigned == [i \in 1..numBlendMeshes |->
                         IF a.blendMeshes[i].nv = 0 THEN resized[i]
                         ELSE LET weights == computeWeights(a.controlPoints,
                                                 firstVertex(a.blendMeshes[i]))
                              IN  IF i - 1 < Len(weights) THEN weights[i] ELSE 0]
          sum == sumOf(assigned)
      IN  AppResult(TRUE,
                    [a EXCEPT !.meshWeights =
                                  IF sum > 0
                                  THEN [i \in 1..numBlendMeshes |-> assigned[i] \div sum]
                                  ELSE assigned,
                              !.needsRecompute = TRUE],
                    e, o)

\* Application::onMeshWeightChanged
onMeshWeightChanged(a, e, o, meshIndex, weight) ==
    IF meshIndex < 0 \/ meshIndex >= Len(a.meshWeights) THEN AppResult(FALSE, a, e, o)
    ELSE AppResult(TRUE,
                   [a EXCEPT !.meshWeights[meshIndex + 1] = weight,
                             !.needsRecompute = TRUE],
                   e, o)

\* Application::onBlendModeChanged
onBlendModeChanged(a, e, o, mode) ==
    AppResult(TRUE, [a EXCEPT !.blendMode = mode, !.needsRecompute = TRUE],
              setBlendMode(e, mode), o)

\* Application::onTetModeChanged
onTetModeChanged(a, e, o, mode) ==
    AppResult(TRUE,
              [a EXCEPT !.tetMode = mode, !.needsInitialization = TRUE,
                        !.needsRecompute = TRUE],
              setTetMode(e, mode), o)

\* Application::onParameterChanged
onParameterChanged(a, e, o) ==
    AppResult(TRUE, [a EXCEPT !.needsRecompute = TRUE], e, o)

(* ------------------------------- state --------------------------------- *)

VARIABLES
    blender,      \* the NWayBlender
    outputMesh,   \* the Mesh handed to computeBlend as output
    app,          \* the other fields of the Application
    call,         \* the most recent call and what it did
    hist,         \* history of the calls made on the engine by a direct caller
    ncalls,       \* number of calls made so far
    rcs,          \* the call of computeRotationConsistency in progress
    arrays,       \* the per-tet arrays of the NWayBlender
    cb            \* the call of computeBlend in progress

vars == <<blender, outputMesh, app, call, hist, ncalls, rcs, arrays, cb>>

Call(op, ret, wlen, parametrized, solves, refits) ==
    [op |-> op, ret |-> ret, wlen |-> wlen, parametrized |-> parametrized,
     solves |-> solves, refits |-> refits]

\* initOK: an initialize() has returned true since the most recent of
\*   construction, setBaseMesh, clearMeshes, setTetMode and setAreaWeighted;
\* times[j]: how often parametrizeBlendMesh ran for target j since the
\*   engine last reset numParametrized
NoHist == [initOK |-> FALSE, times |-> [j \in 1..(MaxMesh + 1) |-> 0]]

Init ==
    /\ hist = NoHist
    /\ blender = NewNWayBlender
    /\ outputMesh = NoMesh
    /\ app = NewApplication
    /\ call = Call("new", TRUE, 0, {}, 0, 0)
    /\ ncalls = 0
    /\ rcs = NoRc
    /\ arrays = NoArrays
    /\ cb = NoFrame

Step == ncalls < MaxCalls /\ ncalls' = ncalls + 1 /\ UNCHANGED <<rcs, arrays, cb>>

(* ------------------- the engine driven by a direct caller -------------- *)

Setter(op, e) ==
    /\ Step
    /\ blender' = e
    /\ call' = Call(op, TRUE, 0, {}, 0, 0)
    /\ hist' = IF op \in {"setBaseMesh", "clearMeshes"} THEN NoHist
               ELSE IF op \in {"setTetMode", "setAreaWeighted"}
               THEN [hist EXCEPT !.initOK = FALSE]
               ELSE hist
    /\ UNCHANGED <<outputMesh, app>>

SetBlendMode == \E m \in BlendModes : Setter("setBlendMode", setBlendMode(blender, m))
SetTetMode == \E m \in TetModes : Setter("setTetMode", setTetMode(blender, m))
SetNumIterations == \E n \in Iterations : Setter("setNumIterations", setNumIterations(blender, n))
SetRotationConsistency == \E b \in BOOLEAN : Setter("setRotationConsistency", setRotationConsistency(blender, b))
SetAreaWeighted == \E b \in BOOLEAN : Setter("setAreaWeighted", setAreaWeighted(blender, b))
SetInitRotation == \E a \in Angles : Setter("setInitRotation", setInitRotation(blender, a))
SetBaseMesh == \E m \in Meshes : Setter("setBaseMesh", setBaseMesh(blender, m))
AddBlendMesh ==
    /\ Len(blender.blendMeshes) < MaxMesh
    /\ \E m \in Meshes : Setter("addBlendMesh", addBlendMesh(blender, m))
ClearMeshes == Setter("clearMeshes", clearMeshes(blender))

Initialize ==
    LET r == initialize(blender)
    IN  /\ Step
        /\ blender' = r.eng
        /\ call' = Call("initialize", r.ret, 0, {}, 0, 0)
        /\ hist' = IF r.ret THEN [NoHist EXCEPT !.initOK = TRUE] ELSE hist
        /\ UNCHANGED <<outputMesh, app>>

\* the caller prepares the output mesh as a copy of the base mesh
PrepareOutput ==
    /\ Step
    /\ outputMesh' = blender.baseMesh
    /\ call' = Call("prepareOutput", TRUE, 0, {}, 0, 0)
    /\ UNCHANGED <<blender, app, hist>>

ComputeBlend ==
    \E w \in WeightVectors, vis \in BOOLEAN, mult \in Multipliers :
        LET r == computeBlend(blender, w, outputMesh, vis, mult)
        IN  /\ Step
            /\ blender' = r.eng
            /\ outputMesh' = r.out
            /\ call' = Call("computeBlend", r.ret, Len(w), r.parametrized,
                            r.solves, r.refits)
            /\ hist' = [hist EXCEPT !.times = [j \in DOMAIN @ |->
                            IF j \in r.parametrized THEN @[j] + 1 ELSE @[j]]]
            /\ UNCHANGED app

Next ==
    \/ SetBlendMode
    \/ SetTetMode
    \/ SetNumIterations
    \/ SetRotationConsistency
    \/ SetAreaWeighted
    \/ SetInitRotation
    \/ SetBaseMesh
    \/ AddBlendMesh
    \/ ClearMeshes
    \/ Initialize
    \/ PrepareOutput
    \/ ComputeBlend

Spec == Init /\ [][Next]_vars

(* ---------------- the engine driven by the Application ----------------- *)

AppCall(op, r) ==
    /\ Step
    /\ app' = r.app
    /\ blender' = r.eng
    /\ outputMesh' = r.out
    /\ call' = Call(op, r.ret, 0, {}, 0, 0)
    /\ UNCHANGED hist

LoadBaseMesh ==
    \E p \in Paths : AppCall("loadBaseMesh", loadBaseMesh(app, blender, outputMesh, p))

AppAddBlendMesh ==
    /\ Len(app.blendMeshes) < MaxMesh
    /\ \E p \in Paths :
          LET r == App_addBlendMesh(app, blender, outputMesh, p)
          IN  AppCall("App::addBlendMesh", [r EXCEPT !.ret = (@ >= 0)])

RemoveBlendMesh ==
    \E i \in 0..MaxMesh :
        AppCall("removeBlendMesh", removeBlendMesh(app, blender, outputMesh, i))

ClearAll == AppCall("clearAll", clearAll(app, blender, outputMesh))

AppInitialize == AppCall("App::initialize", App_initialize(app, blender, outputMesh))

AppComputeBlend ==
    LET r == App_computeBlend(app, blender, outputMesh)
    IN  /\ Step
        /\ app' = r.app
        /\ blender' = r.eng
        /\ outputMesh' = r.out
        /\ call' = Call("App::computeBlend", r.ret, Len(app.meshWeights),
                        r.blend.parametrized, r.blend.solves, r.blend.refits)
        /\ UNCHANGED hist

OnMeshWeightChanged ==
    \E i \in 0..MaxMesh, w \in WeightVals :
        AppCall("onMeshWeightChanged",
                onMeshWeightChanged(app, blender, outputMesh, i, w))

OnBlendModeChanged ==
    \E m \in BlendModes :
        AppCall("onBlendModeChanged", onBlendModeChanged(app, blender, outputMesh, m))

OnTetModeChanged ==
    \E m \in TetModes :
        AppCall("onTetModeChanged", onTetModeChanged(app, blender, outputMesh, m))

\* the controls of the "Blending" panel of callback(), shown when the
\* Application is ready to blend: each writes a field of the Application
\* and calls onParameterChanged
UiControl(op, a) ==
    /\ isReadyToBlend(app)
    /\ AppCall(op, onParameterChanged(a, blender, outputMesh))

UiTetMode == \E m \in TetModes : UiControl("ui:TetMode", [app EXCEPT !.tetMode = m])
UiIterations == \E n \in Iterations : UiControl("ui:Iterations", [app EXCEPT !.numIterations = n])
UiRotationConsistency == \E b \in BOOLEAN : UiControl("ui:RotationConsistency", [app EXCEPT !.rotationConsistency = b])
UiAreaWeighted == \E b \in BOOLEAN : UiControl("ui:AreaWeighted", [app EXCEPT !.areaWeighted = b])
UiVisualizeEnergy == \E b \in BOOLEAN : UiControl("ui:VisualizeEnergy", [app EXCEPT !.visualizeEnergy = b])

\* the "Energy Multiplier" slider writes the field only
UiEnergyMultiplier ==
    /\ isReadyToBlend(app)
    /\ app.visualizeEnergy
    /\ \E m \in Multipliers :
          AppCall("ui:EnergyMultiplier",
                  AppResult(TRUE, [app EXCEPT !.visualizationMultiplier = m],
                            blender, outputMesh))

NextApp ==
    \/ LoadBaseMesh
    \/ AppAddBlendMesh
    \/ RemoveBlendMesh
    \/ ClearAll
    \/ AppInitialize
    \/ AppComputeBlend
    \/ OnMeshWeightChanged
    \/ OnBlendModeChanged
    \/ OnTetModeChanged
    \/ UiTetMode
    \/ UiIterations
    \/ UiRotationConsistency
    \/ UiAreaWeighted
    \/ UiVisualizeEnergy
    \/ UiEnergyMultiplier

SpecApp == Init /\ [][NextApp]_vars

(* --------- the Application driven through its control points ---------- *)

AddControlPoint ==
    /\ Len(app.controlPoints) < MaxMesh
    /\ \E pos \in Points :
          LET r == addControlPoint(app, blender, outputMesh, pos)
          IN  AppCall("addControlPoint", [r EXCEPT !.ret = (@ >= 0)])

RemoveControlPoint ==
    \E i \in 0..MaxMesh :
        AppCall("removeControlPoint", removeControlPoint(app, blender, outputMesh, i))

UpdateControlPoint ==
    \E i \in 0..MaxMesh, pos \in Points :
        AppCall("updateControlPoint",
                updateControlPoint(app, blender, outputMesh, i, pos))

ComputeBarycentricWeights ==
    AppCall("computeBarycentricWeights",
            computeBarycentricWeights(app, blender, outputMesh))

NextCtl ==
    \/ NextApp
    \/ AddControlPoint
    \/ RemoveControlPoint
    \/ UpdateControlPoint
    \/ ComputeBarycentricWeights

SpecCtl == Init /\ [][NextCtl]_vars

(* ------- the meshes, weights and control points of the Application ----- *)

NextWeights ==
    \/ LoadBaseMesh
    \/ AppAddBlendMesh
    \/ RemoveBlendMesh
    \/ ClearAll
    \/ OnMeshWeightChanged
    \/ AddControlPoint
    \/ RemoveControlPoint
    \/ UpdateControlPoint
    \/ ComputeBarycentricWeights

SpecWeights == Init /\ [][NextWeights]_vars

(* ------------- the engine blending shapes in the five modes ------------ *)

\* contents of memory that was not initialized
Garbage == {0, 1}

BlendCall(op, ret, e, o, x) ==
    /\ cb.pc \in {"idle", "done"}
    /\ ncalls < MaxCalls
    /\ ncalls' = ncalls + 1
    /\ blender' = e
    /\ outputMesh' = o
    /\ arrays' = x
    /\ call' = Call(op, ret, 0, {}, 0, 0)
    /\ cb' = NoFrame
    /\ UNCHANGED <<app, hist, rcs>>

ChooseBlendMode ==
    \E m \in AllBlendModes :
        BlendCall("setBlendMode", TRUE, setBlendMode(blender, m), outputMesh, arrays)

ChooseRotationConsistency ==
    \E b \in BOOLEAN :
        BlendCall("setRotationConsistency", TRUE,
                  setRotationConsistency(blender, b), outputMesh, arrays)

\* the rest shape becomes the base mesh, and the output a copy of it
UseRestShape ==
    BlendCall("setBaseMesh", TRUE, setBaseMesh(blender, ShapeMesh("a")),
              ShapeMesh("a"), arrays)

AddShape ==
    /\ Len(blender.blendMeshes) < MaxMesh
    /\ \E id \in Shapes :
          BlendCall("addBlendMesh", TRUE, addBlendMesh(blender, ShapeMesh(id)),
                    outputMesh, arrays)

\* a target with one vertex more than the rest shape
AddOtherMesh ==
    /\ Len(blender.blendMeshes) < MaxMesh
    /\ BlendCall("addBlendMesh", TRUE, addBlendMesh(blender, FileMesh("c.obj")),
                 outputMesh, arrays)

BuildSolver ==
    LET r == initialize(blender)
    IN  BlendCall("initialize", r.ret, r.eng, outputMesh, arrays)

Blend ==
    \E w \in WeightVectors, g \in Garbage :
        LET r == computeBlend(blender, w, outputMesh, FALSE, 1)
        IN  BlendCall("computeBlend", r.ret, r.eng, r.out,
                      blendArrays(blender, arrays, w, g))

NextBlend ==
    \/ ChooseBlendMode
    \/ ChooseRotationConsistency
    \/ UseRestShape
    \/ AddShape
    \/ AddOtherMesh
    \/ BuildSolver
    \/ Blend

SpecBlend == Init /\ [][NextBlend]_vars

(* --------------- one call of computeRotationConsistency ---------------- *)

\* adjacency lists handed to the traversal.  The list of tet i is empty, or
\* names the next tet, the next two tets, the next tet twice (a duplicate
\* entry), or the tet itself and the previous tet (a self-loop); the lists
\* of two tets are chosen independently, so entries may be one-directional
AdjLists(n, i) ==
    LET succ(j) == (j % n) + 1
        pred(j) == ((j + n - 2) % n) + 1
    IN  {<<>>, <<succ(i)>>, <<succ(i), succ(succ(i))>>, <<succ(i), succ(i)>>,
         <<i, pred(i)>>}

\* the graphs on n tets: one list for every tet
RECURSIVE Graphs(_, _)
Graphs(n, i) ==
    IF i = 0 THEN {<<>>}
    ELSE {Append(g, l) : g \in Graphs(n, i - 1), l \in AdjLists(n, i)}

\* the rotations of the tets of the target: three quarter turns and a half
\* turn in alternation
Rotations(n) == [i \in 1..n |-> IF i % 2 = 1 THEN 3 ELSE 2]

RcStep(s) ==
    /\ rcs' = s
    /\ UNCHANGED <<blender, outputMesh, app, call, hist, ncalls, arrays, cb>>

\* parametrizeBlendMesh calls computeRotationConsistency on the tets, the
\* adjacency lists and the rotations it holds
RcCall ==
    /\ rcs.pc = "idle"
    /\ \E n \in 0..MaxTet :
          \E adj \in Graphs(n, n) :
             \E angle \in {0} \cup Angles :
                RcStep(rcCall(n, adj, Rotations(n), angle))

RcEnter == rcs.pc = "call" /\ RcStep(rcEnter(rcs))

RcIterate == rcs.pc = "loop" /\ rcs.remain # {} /\ RcStep(rcIterate(rcs))

RcReturn == rcs.pc = "loop" /\ rcs.remain = {} /\ RcStep([rcs EXCEPT !.pc = "done"])

NextRC ==
    \/ RcCall
    \/ RcEnter
    \/ RcIterate
    \/ RcReturn

SpecRC == Init /\ [][NextRC]_vars

\* a call that was made runs on: the single control thread does not stop
\* inside the loop
SpecRCFair ==
    SpecRC /\ WF_vars(RcEnter) /\ WF_vars(RcIterate) /\ WF_vars(RcReturn)

(* ------------ one call of computeBlend, statement by statement --------- *)

ChooseIterations ==
    \E n \in AnyIterations :
        BlendCall("setNumIterations", TRUE, setNumIterations(blender, n),
                  outputMesh, arrays)

CbStep(c, e, o, x, s) ==
    /\ cb' = c
    /\ blender' = e
    /\ outputMesh' = o
    /\ arrays' = x
    /\ rcs' = s
    /\ UNCHANGED <<app, hist>>

\* the caller calls computeBlend
CbEnter ==
    /\ cb.pc \in {"idle", "done"}
    /\ ncalls < MaxCalls
    /\ ncalls' = ncalls + 1
    /\ \E w \in WeightVectors, vis \in BOOLEAN, mult \in Multipliers,
          g \in Garbage :
          LET r == enter(blender, arrays, w, vis, mult, g)
          IN  /\ CbStep(r.frame, r.eng, outputMesh, r.arr, rcs)
              /\ call' = IF r.frame.pc = "done"
                         THEN Call("computeBlend", FALSE, Len(w), {}, 0, 0)
                         ELSE call

\* parametrizeBlendMesh(j) up to its call of computeRotationConsistency, or
\* to its end when it makes none
CbParametrize ==
    /\ cb.pc = "param"
    /\ moreTargets(cb)
    /\ IF traverses(blender, cb)
       THEN CbStep([cb EXCEPT !.pc = "traversal"], blender, outputMesh, arrays,
                   traversal(blender, cb))
       ELSE LET r == returned(blender, arrays, cb)
            IN  CbStep(r.frame, r.eng, outputMesh, r.arr, rcs)
    /\ UNCHANGED <<call, ncalls>>

\* computeRotationConsistency has returned, and parametrizeBlendMesh after it
CbResume ==
    /\ cb.pc = "traversal"
    /\ rcs.pc = "done"
    /\ LET r == returned(blender, arrays, cb)
       IN  CbStep(r.frame, r.eng, outputMesh, r.arr, NoRc)
    /\ UNCHANGED <<call, ncalls>>

CbBlend ==
    /\ cb.pc = "param"
    /\ ~moreTargets(cb)
    /\ LET r == blend(blender, arrays, cb)
       IN  CbStep(r.frame, r.eng, outputMesh, r.arr, rcs)
    /\ UNCHANGED <<call, ncalls>>

CbSolve ==
    /\ cb.pc = "loop"
    /\ iterating(blender, cb)
    /\ CbStep(solve(blender, cb), blender, outputMesh, arrays, rcs)
    /\ UNCHANGED <<call, ncalls>>

CbRefit ==
    /\ cb.pc = "refit"
    /\ CbStep(refit(cb), blender, outputMesh, arrays, rcs)
    /\ UNCHANGED <<call, ncalls>>

CbReturn ==
    /\ cb.pc = "loop"
    /\ ~iterating(blender, cb)
    /\ LET r == finish(blender, cb, outputMesh)
       IN  /\ CbStep(r.frame, blender, r.out, arrays, rcs)
           /\ call' = Call("computeBlend", TRUE, Len(cb.weights),
                           cb.finished, Len(cb.composed),
                           Len(cb.events) - Len(cb.composed))
    /\ UNCHANGED ncalls

NextLoop ==
    \/ UseRestShape
    \/ AddShape
    \/ BuildSolver
    \/ ChooseRotationConsistency
    \/ ChooseIterations
    \/ CbEnter
    \/ CbParametrize
    \/ RcEnter
    \/ RcIterate
    \/ RcReturn
    \/ CbResume
    \/ CbBlend
    \/ CbSolve
    \/ CbRefit
    \/ CbReturn

SpecLoop == Init /\ [][NextLoop]_vars

(* ------------------------------- claims -------------------------------- *)

\* the fields of the engine proper (dirtied only records the last call)
Engine(e) == [e EXCEPT !.dirtied = {}]

\* C1: a computeBlend call made while the engine is not initialized, or holds
\* no target, or with a weight vector whose length differs from the number
\* of targets, returns false, and no target was parametrized, no ARAP solve
\* ran, and the per-target arrays, the solver and the output are as before.
C1_RejectsBadCalls ==
    [][(/\ call'.op = "computeBlend"
        /\ \/ blender.needsInitialization
           \/ Len(blender.blendMeshes) = 0
           \/ call'.wlen # Len(blender.blendMeshes))
       => (/\ call'.ret = FALSE
           /\ call'.parametrized = {}
           /\ call'.solves = 0
           /\ blender'.param = blender.param
           /\ blender'.numParametrized = blender.numParametrized
           /\ blender'.solver = blender.solver
           /\ outputMesh' = outputMesh)]_vars

\* an initialized engine with targets has just been called with a weight
\* vector of the wrong length
C1_Witness ==
    /\ call.op = "computeBlend"
    /\ ~blender.needsInitialization
    /\ Len(blender.blendMeshes) > 0
    /\ call.wlen # Len(blender.blendMeshes)
    /\ call.wlen > 0

\* C2: as long as no initialize() has returned true since the most recent of
\* construction, setBaseMesh, clearMeshes, setTetMode and setAreaWeighted,
\* isInitialized() is false and computeBlend is rejected for every weight
\* vector.
C2_InitializePrecedesBlend ==
    ~hist.initOK =>
        /\ ~isInitialized(blender)
        /\ \A w \in WeightVectors, vis \in BOOLEAN :
              ~computeBlend(blender, w, outputMesh, vis, 1).ret
        /\ (call.op = "computeBlend" => ~call.ret)

\* a successful initialization has just been invalidated by setAreaWeighted
\* on an engine that holds a valid base mesh and a target
C2_Witness ==
    /\ call.op = "setAreaWeighted"
    /\ ~hist.initOK
    /\ blender.solver.factorized
    /\ blender.solver.base = blender.baseMesh.V
    /\ Len(blender.blendMeshes) > 0

\* C3: after a successful computeBlend every target (of the base mesh's
\* vertex count) holds a parametrization computed under the current blend
\* mode and the current rotation-consistency flag.
C3_ParametrizedUnderCurrentSettings ==
    (call.op = "computeBlend" /\ call.ret) =>
        \A j \in 1..Len(blender.blendMeshes) :
            blender.blendMeshes[j].nv = blender.numPts =>
                /\ blender.param[j].mode = blender.blendMode
                /\ blender.param[j].rc = blender.rotationConsistency

\* C4: an addBlendMesh call on an engine with a valid base mesh that changes
\* the engine (target list or dirty flags) added a mesh with the base
\* mesh's vertex count and face count.
C4_MismatchedTargetRejected ==
    [][(/\ call'.op = "addBlendMesh"
        /\ isValid(blender.baseMesh)
        /\ Engine(blender') # Engine(blender))
       => LET m == blender'.blendMeshes[Len(blender'.blendMeshes)]
          IN  /\ m.nv = blender.baseMesh.nv
              /\ m.nf = blender.baseMesh.nf]_vars

\* C5: a computeBlend call that returns false leaves the engine (meshes,
\* parameters, per-target arrays, numParametrized, dirty flags, solver) and
\* the output mesh exactly as they were.
C5_RejectedCallChangesNothing ==
    [][(call'.op = "computeBlend" /\ ~call'.ret)
       => (Engine(blender') = Engine(blender) /\ outputMesh' = outputMesh)]_vars

\* a call has just been rejected by an engine that holds parametrized
\* targets and has written a blended output
C5_Witness ==
    /\ call.op = "computeBlend"
    /\ ~call.ret
    /\ outputMesh.V.kind = "blend"
    /\ blender.numParametrized > 0

\* C6: an Application::computeBlend that returns false leaves outputMesh
\* exactly as it was.
C6_FailedBlendKeepsOutput ==
    [][(call'.op = "App::computeBlend" /\ ~call'.ret)
       => outputMesh' = outputMesh]_vars

\* C7: a successful computeBlend runs parametrizeBlendMesh for exactly the
\* targets numParametrized..numMesh-1 and leaves the arrays of the earlier
\* targets as they were; since the engine last reset numParametrized, every
\* target below numParametrized has been parametrized once and no other
\* target at all.
C7_OnlyNewTargetsParametrized ==
    /\ [](\A j \in DOMAIN hist.times :
             hist.times[j] = IF j <= blender.numParametrized THEN 1 ELSE 0)
    /\ [][(call'.op = "computeBlend" /\ call'.ret)
          => /\ call'.parametrized =
                  {j \in 1..Len(blender.blendMeshes) : j > blender.numParametrized}
             /\ blender'.numParametrized = Len(blender.blendMeshes)
             /\ \A j \in 1..blender.numParametrized :
                  blender'.param[j] = blender.param[j]]_vars

\* a second computeBlend after an addBlendMesh has parametrized the new
\* target only
C7_Witness ==
    /\ call.op = "computeBlend"
    /\ call.ret
    /\ call.parametrized = {2}
    /\ hist.times[1] = 1
    /\ blender.param[1] # NoParam

\* C8: an Application::computeBlend made while the engine is marked for
\* initialization (by setTetMode, setAreaWeighted or setBaseMesh), with a
\* base mesh that can be factorized, rebuilds the tet structure and the
\* factorization for the current settings and computes the blend.
C8_LazyRebuildThenBlend ==
    [][(/\ call'.op = "App::computeBlend"
        /\ blender.needsInitialization
        /\ isReadyToBlend(app)
        /\ app.baseMesh.V.id # "d")
       => (/\ call'.ret
           /\ blender'.solver.factorized
           /\ blender'.solver.tetMode = blender'.tetMode
           /\ blender'.solver.areaWeighted = blender'.areaWeighted
           /\ blender'.solver.base = blender'.baseMesh.V)]_vars

\* C9: after a successful Application::computeBlend the parameters of the
\* engine, and the settings its tet structure and factorization were built
\* for, are the current values of the Application's fields.
C9_EngineFollowsApplication ==
    (call.op = "App::computeBlend" /\ call.ret) =>
        /\ blender.blendMode = app.blendMode
        /\ blender.tetMode = app.tetMode
        /\ blender.numIterations = app.numIterations
        /\ blender.rotationConsistency = app.rotationConsistency
        /\ blender.areaWeighted = app.areaWeighted
        /\ blender.initRotationAngle = app.globalRotation
        /\ blender.solver.tetMode = app.tetMode
        /\ blender.solver.areaWeighted = app.areaWeighted

\* C10: setBlendMode, setRotationConsistency and setInitRotation assign the
\* parametrization dirty flag, setTetMode and setAreaWeighted assign the
\* initialization dirty flag, and setNumIterations assigns neither.
C10_SettersMarkDirty ==
    /\ call.op \in {"setBlendMode", "setRotationConsistency", "setInitRotation"}
          => "needsParametrization" \in blender.dirtied
    /\ call.op \in {"setTetMode", "setAreaWeighted"}
          => "needsInitialization" \in blender.dirtied
    /\ call.op = "setNumIterations" => blender.dirtied = {}

\* C11: an initialize() call in which the solver precompute reports an error
\* returns false and leaves the engine not initialized, with computeBlend
\* rejected for every weight vector, whatever the engine held before; and an
\* engine that is not initialized becomes initialized only by an
\* initialize() that returns true.
C11_FactorizationFailureIsFatal ==
    [][/\ (/\ call'.op = "initialize"
           /\ isValid(blender.baseMesh)
           /\ ARAPprecompute(tetStructure(blender)) > 0)
          => (/\ ~call'.ret
              /\ ~isInitialized(blender')
              /\ \A w \in WeightVectors, vis \in BOOLEAN :
                    ~computeBlend(blender', w, outputMesh', vis, 1).ret)
       /\ (~isInitialized(blender) /\ isInitialized(blender'))
          => (call'.op = "initialize" /\ call'.ret)]_vars

\* the precompute has just failed on an engine that had been initialized
\* and had computed a blend before
C11_Witness ==
    /\ call.op = "initialize"
    /\ ~call.ret
    /\ isValid(blender.baseMesh)
    /\ ~blender.solver.factorized
    /\ Len(blender.param) > 0
    /\ Len(blender.blendMeshes) > 0

Resolved == {rcs.order[k] : k \in 1..Len(rcs.order)}

\* the tets resolved after being taken from the frontier queue, in the
\* order of their resolution
RECURSIVE fromFrontier(_)
fromFrontier(order) ==
    IF order = <<>> THEN <<>>
    ELSE IF Head(order) \in rcs.seeds THEN fromFrontier(Tail(order))
    ELSE <<Head(order)>> \o fromFrontier(Tail(order))

\* position of the first resolution of tet i
FirstAt(i) == CHOOSE k \in 1..Len(rcs.order) :
                 rcs.order[k] = i /\ \A j \in 1..(k - 1) : rcs.order[j] # i

\* C17: when computeRotationConsistency returns, every tet has had its logR
\* assigned from logSOc during the call.
C17_EveryTetResolved ==
    rcs.pc = "done" =>
        \A i \in 1..rcs.n : i \in Resolved /\ rcs.logR[i] # Unset

\* C18: no tet is resolved twice, and a tet that has left the unvisited set
\* is never pushed on the frontier again: no tet occurs twice in the order
\* of resolution or in the order of the pushes, a pushed tet was never a
\* seed, and the frontier holds only tets that are no longer unvisited.
C18_ResolvedAtMostOnce ==
    /\ \A j, k \in 1..Len(rcs.order) : rcs.order[j] = rcs.order[k] => j = k
    /\ \A j, k \in 1..Len(rcs.enq) : rcs.enq[j] = rcs.enq[k] => j = k
    /\ \A k \in 1..Len(rcs.enq) : rcs.enq[k] \notin rcs.seeds
    /\ \A k \in 1..Len(rcs.later) : rcs.later[k] \notin rcs.remain
    /\ Resolved \cap rcs.remain = {}

\* a graph with a self-loop, a duplicate entry and a one-directional entry
\* has been traversed and two tets were resolved
C18_Witness ==
    /\ rcs.pc = "done"
    /\ rcs.n = 4
    /\ rcs.adj = << <<1, 4>>, <<3, 3>>, <<4>>, <<>> >>
    /\ Len(rcs.order) >= 2

\* C19: a tet resolved after being taken from the frontier was resolved
\* against the logR of the tet that discovered it, which lists it as a
\* neighbour and was resolved earlier; a tet taken as a seed was resolved
\* against the reference built from initRotationAngle; the tets taken from
\* the frontier were resolved in the order in which they were pushed.
C19_ResolvedAgainstDiscoverer ==
    /\ \A i \in Resolved :
          IF i \in rcs.seeds
          THEN rcs.ref[i] = rcs.angle \div 90 /\ rcs.disc[i] = 0
          ELSE LET d == rcs.disc[i]
               IN  /\ d \in Resolved
                   /\ FirstAt(d) < FirstAt(i)
                   /\ \E k \in 1..Len(rcs.adj[d]) : rcs.adj[d][k] = i
                   /\ rcs.ref[i] = rcs.logR[d]
    /\ LET q == fromFrontier(rcs.order)
       IN  Len(q) <= Len(rcs.enq) /\ q = SubSeq(rcs.enq, 1, Len(q))

\* two tets pushed by the same neighbour have both been resolved from the
\* frontier, against a reference that differs from the initial one
C19_Witness ==
    /\ Len(fromFrontier(rcs.order)) >= 2
    /\ \E i \in Resolved \ rcs.seeds :
          rcs.ref[i] # rcs.angle \div 90 /\ rcs.logR[i] # logSO(rcs.R[i])

\* C20: every iteration of the loop strictly decreases the combined size of
\* the unvisited set and the frontier queue, and the call returns.
C20_Terminates ==
    /\ [][(rcs.pc = "loop" /\ rcs'.pc = "loop")
          => Cardinality(rcs'.remain) + Len(rcs'.later)
               < Cardinality(rcs.remain) + Len(rcs.later)]_vars
    /\ (rcs.pc = "call") ~> (rcs.pc = "done")

\* a graph of several components with a self-loop and a duplicate entry has
\* been traversed to the end
C20_Witness ==
    /\ rcs.pc = "done"
    /\ rcs.n = 4
    /\ rcs.adj = << <<1, 4>>, <<>>, <<4, 4>>, <<>> >>
    /\ Len(rcs.order) >= 3

\* C16: in the Application, whenever baseMesh is valid, every mesh of
\* blendMeshes has the base mesh's vertex count and face count, whatever
\* sequence of loadBaseMesh, addBlendMesh, removeBlendMesh and clearAll led
\* there
C16_BlendMeshesMatchBase ==
    isValid(app.baseMesh) =>
        \A i \in DOMAIN app.blendMeshes :
            /\ app.blendMeshes[i].nv = app.baseMesh.nv
            /\ app.blendMeshes[i].nf = app.baseMesh.nf

\* a valid base mesh with an accepted blend mesh, right after an
\* addBlendMesh that was refused
C16_Witness ==
    /\ isValid(app.baseMesh)
    /\ Len(app.blendMeshes) >= 1
    /\ call.op = "App::addBlendMesh"
    /\ ~call.ret

\* what the output is computed from: the geometry of the meshes, the
\* weights, the control points and the blend parameters of an Application
Inputs(a) ==
    [base |-> [nv |-> a.baseMesh.nv, nf |-> a.baseMesh.nf, V |-> a.baseMesh.V],
     targets |-> [i \in DOMAIN a.blendMeshes |->
                     [nv |-> a.blendMeshes[i].nv, nf |-> a.blendMeshes[i].nf,
                      V |-> a.blendMeshes[i].V]],
     meshWeights |-> a.meshWeights, controlPoints |-> a.controlPoints,
     blendMode |-> a.blendMode, tetMode |-> a.tetMode,
     numIterations |-> a.numIterations, globalRotation |-> a.globalRotation,
     rotationConsistency |-> a.rotationConsistency,
     areaWeighted |-> a.areaWeighted, visualizeEnergy |-> a.visualizeEnergy,
     visualizationMultiplier |-> a.visualizationMultiplier]

\* C15: every operation of the Application that changes a mesh, a weight,
\* a control point or a blend parameter leaves needsRecompute true;
\* needsRecompute becomes false only by a successful computeBlend; so while
\* needsRecompute is false the output mesh is the blend of the current base
\* mesh under the current weights, blend mode and iteration count.
C15_ChangesTriggerRecompute ==
    /\ [][/\ (Inputs(app') # Inputs(app)) => app'.needsRecompute
          /\ (app.needsRecompute /\ ~app'.needsRecompute) =>
                 (call'.op = "App::computeBlend" /\ call'.ret)]_vars
    /\ [](~app.needsRecompute =>
              /\ outputMesh.V.id = app.baseMesh.V.id
              /\ outputMesh.V.w = app.meshWeights
              /\ outputMesh.V.mode = app.blendMode
              /\ outputMesh.V.it = app.numIterations)

\* C13: after a computeBlend with every weight 0, in each of the five blend
\* modes, the transform of every tet handed to the solver is the identity:
\* rotation (linear part) and stretch are the identity and the translation
\* is 0.
C13_ZeroWeightsGiveIdentity ==
    (/\ call.op = "computeBlend" /\ call.ret
     /\ blender.blendMode \in AllBlendModes
     /\ \A j \in DOMAIN arrays.weights : arrays.weights[j] = 0) =>
        \A i \in 1..blender.solver.numTet :
            /\ arrays.AR[i] = Identity
            /\ arrays.AS[i] = Identity
            /\ arrays.AL[i] = Zero

\* the blended translations of the engine e, parametrized afresh with
\* every target moved by t, under the weights w
shiftedAL(e, w, t, g) ==
    LET moved == [e EXCEPT !.blendMeshes = [j \in DOMAIN @ |-> translate(@[j], t)],
                           !.numParametrized = 0]
    IN  blendArrays(moved, NoArrays, w, g).AL

\* C14: after a computeBlend, for any weight vector, moving every target by
\* the same vector t and blending again with the same weights moves the
\* blended translation of every tet by exactly t.
C14_TranslationInvariance ==
    (/\ call.op = "computeBlend" /\ call.ret
     /\ \A j \in DOMAIN blender.blendMeshes :
            blender.blendMeshes[j].V.id \in Shapes) =>
        \A t \in Shifts, g \in Garbage :
            \A i \in 1..blender.solver.numTet :
                shiftedAL(blender, arrays.weights, t, g)[i]
                    = plus(arrays.AL[i], <<t, 0>>)

\* C26: after every successful Application::initialize the engine holds
\* exactly the blend meshes of the Application, in the same order, also
\* when initialize runs again after addBlendMesh or removeBlendMesh.
C26_EngineHoldsApplicationMeshes ==
    (call.op = "App::initialize" /\ call.ret) =>
        blender.blendMeshes = app.blendMeshes

\* C27: in the Application meshWeights has as many elements as
\* blendMeshes, in every reachable state.
C27_OneWeightPerMesh == Len(app.meshWeights) = Len(app.blendMeshes)

\* computeBarycentricWeights has assigned the weights of two blend meshes,
\* the first of them 1
C27_Witness ==
    /\ call.op = "computeBarycentricWeights"
    /\ call.ret
    /\ Len(app.blendMeshes) = 2
    /\ app.meshWeights[1] = 1

\* C30: a loadBaseMesh that fails leaves the base mesh, the blend meshes,
\* the weights and the two flags of the Application as they were.
C30_FailedLoadChangesNothing ==
    [][(call'.op = "loadBaseMesh" /\ ~call'.ret) =>
           /\ app'.baseMesh = app.baseMesh
           /\ app'.blendMeshes = app.blendMeshes
           /\ app'.meshWeights = app.meshWeights
           /\ app'.needsInitialization = app.needsInitialization
           /\ app'.needsRecompute = app.needsRecompute]_vars

\* C25: the tet structure and the factorization of the solver are built by
\* initialize() only: a computeBlend, whatever its weights and the number
\* of iterations, leaves them as they are, and so does every other call.
C25_FactorizedOncePerInitialization ==
    [][/\ (call'.op = "computeBlend") => blender'.solver = blender.solver
       /\ (blender'.solver # blender.solver) => call'.op = "initialize"]_vars

\* a computeBlend of two iterations has succeeded on a factorized solver
C25_Witness ==
    /\ call.op = "computeBlend"
    /\ call.ret
    /\ call.solves = 2
    /\ blender.solver.factorized
    /\ blender.solver.numTet > 0

\* the arrays blendTransformations reads in each mode
Reads(mode) ==
    {"L"} \cup CASE mode = BM_LOG3 -> {"logGL"}
                [] mode = BM_SQL -> {"quat", "S"}
                [] mode = BM_SRL -> {"logR", "logS"}
                [] mode = BM_SlRL -> {"logR", "S"}
                [] mode = BM_AFF -> {"GL"}
                [] OTHER -> {}

\* C28: whenever blendTransformations has run, every array its blend mode
\* reads holds, for every target, numTet entries that a parametrization
\* of that target computed.
C28_BlendReadsFilledArrays ==
    (call.op = "computeBlend" /\ call.ret) =>
        \A j \in 1..Len(blender.blendMeshes) :
            /\ Reads(blender.blendMode) \subseteq arrays.made[j]
            /\ Len(arrays.L[j]) = blender.solver.numTet

\* the number of entries v of the sequence s
RECURSIVE count(_, _)
count(s, v) ==
    IF Len(s) = 0 THEN 0
    ELSE (IF s[1] = v THEN 1 ELSE 0) + count(Tail(s), v)

\* C22: a computeBlend that returns true has made exactly numIterations
\* solves and, between them, exactly numIterations - 1 refits, and one more
\* refit after the last solve exactly when visualizeEnergy is true: the
\* solves and refits alternate, starting with a solve.
C22_FixedNumberOfSolves ==
    [][(cb.pc = "loop" /\ cb'.pc = "done") =>
          LET n == blender.numIterations
              ev == cb'.events
          IN  /\ count(ev, "solve") = n
              /\ count(ev, "refit") = (n - 1) + (IF cb.visualizeEnergy THEN 1 ELSE 0)
              /\ \A i \in 1..Len(ev) : (ev[i] = "solve") <=> (i % 2 = 1)]_vars

\* C23: every solve of one computeBlend is handed the stretch AS and the
\* translation AL that blendTransformations produced; the first solve is
\* handed the blended rotation, and every later solve the rotation refitted
\* to the positions of the solve before it.
C23_OnlyRotationChanges ==
    /\ cb.pc \in {"loop", "refit"} => (cb.AS = arrays.AS /\ cb.AL = arrays.AL)
    /\ \A i \in 1..Len(cb.composed) :
          /\ cb.composed[i].AS = arrays.AS
          /\ cb.composed[i].AL = arrays.AL
          /\ cb.composed[i].AR = [blend |-> arrays.AR, fit |-> i - 1]

\* three solves have been made from a blend of two targets
C23_Witness ==
    /\ cb.pc = "done"
    /\ cb.ret
    /\ Len(cb.composed) = 3
    /\ cb.numMesh = 2
    /\ Len(cb.AS) > 0

\* C24: from one engine state, with the same weights and the same contents
\* of memory, computeBlend hands the same positions to the output mesh and
\* leaves the same engine behind whatever visualizeEnergy and
\* visualizationMultiplier are; the two only decide whether the vertex
\* energy of the output is left as it was or written, scaled by the
\* multiplier.
C24_PositionsIgnoreVisualization ==
    cb.pc \in {"idle", "done"} =>
       \A w \in WeightVectors, g \in Garbage :
          LET r0 == computeBlendRun(blender, arrays, outputMesh, w, FALSE, 1, g)
          IN  \A vis \in BOOLEAN, mult \in AnyMultipliers :
                 LET r == computeBlendRun(blender, arrays, outputMesh, w, vis, mult, g)
                 IN  /\ r.ret = r0.ret
                     /\ r.ret =>
                          /\ r.frame.new_pts = r0.frame.new_pts
                          /\ r.frame.composed = r0.frame.composed
                          /\ r.out.V = r0.out.V
                          /\ r.eng = r0.eng
                          /\ r.out.energy = IF vis
                                            THEN [n |-> blender.numPts, mult |-> mult]
                                            ELSE outputMesh.energy

\* a call of two or more solves has written the scaled energy, and the
\* engine is ready for the next call
C24_Witness ==
    /\ cb.pc = "done"
    /\ cb.ret
    /\ cb.visualizeEnergy
    /\ Len(cb.composed) >= 2
    /\ outputMesh.energy = [n |-> blender.numPts, mult |-> cb.visualizationMultiplier]
    /\ ~rejects(blender, cb.weights)
    /\ blender.numIterations >= 2

\* C21: blendTransformations starts only when parametrizeBlendMesh, with
\* the traversal it calls, has returned for every target from
\* numParametrized on and no traversal is in progress; a traversal is in
\* progress only inside parametrizeBlendMesh, before the blend.
C21_ParametrizedBeforeBlend ==
    /\ [][(cb.pc = "param" /\ cb'.pc = "loop") =>
             /\ rcs.pc = "idle"
             /\ cb.finished = cb.first..cb.numMesh]_vars
    /\ [](rcs.pc # "idle" =>
             (cb.pc = "traversal" /\ cb.j \notin cb.finished /\ cb.AR.blend = <<>>))

\* two targets have been traversed and blended
C21_Witness ==
    /\ cb.pc = "loop"
    /\ blender.rotationConsistency
    /\ Cardinality(cb.finished) = 2

\* C29: the positions a computeBlend that returns true hands to the output
\* mesh were copied from a solve made in that call.
C29_WritesSolvedPositions ==
    (cb.pc = "done" /\ cb.ret) => (cb.new_pts.solved /\ Len(cb.composed) >= 1)

====
